---- MODULE Spec2Model ----
(***************************************************************************)
(* A model of src/main.py: the Profile record with its keyspace field, the *)
(* oracle construction and Grover call of Profile.run_grover_search, and   *)
(* the two click commands assign_keyspace and run_grover.                  *)
(*                                                                         *)
(* Python strings are sequences of one-character strings, None is the      *)
(* empty sequence, a keyspace is the pair <<lower_bound, upper_bound>> of  *)
(* the two hexadecimal strings exactly as they were passed in.             *)
(***************************************************************************)
EXTENDS Integers, Sequences, FiniteSets, TLC

VARIABLES
    profiles,     \* Profile objects held by a caller: id -> current_keyspace
    call,         \* the most recent call: its arguments, what it built, returned or printed
    last_assign   \* history: id -> the arguments of the latest assign_keyspace call on
                  \* that object (None before the first)

vars == <<profiles, call, last_assign>>

----------------------------------------------------------------------------
(* Bounds of the model.                                                    *)

\* Largest integer written as a bound of a keyspace in Spec.
MaxKey == 2
\* Largest integer written as a bound of a searched range in SpecSearch.
MaxVal == 4
\* Largest value of the iterations argument.
MaxIter == 2

\* The positions of the list load_profiles returns (profiles.json holds two records).
ProfileIds == 0..1

None == <<>>

----------------------------------------------------------------------------
(* Python built-ins used by the code.                                      *)

\* ord(c) for the characters of hexadecimal literals and bitstrings.
Ord(c) ==
    CASE c = "0" -> 48 [] c = "1" -> 49 [] c = "2" -> 50 [] c = "3" -> 51
      [] c = "4" -> 52 [] c = "5" -> 53 [] c = "6" -> 54 [] c = "7" -> 55
      [] c = "8" -> 56 [] c = "9" -> 57
      [] c = "A" -> 65 [] c = "B" -> 66 [] c = "C" -> 67 [] c = "D" -> 68
      [] c = "E" -> 69 [] c = "F" -> 70
      [] c = "x" -> 120

\* The value of one hexadecimal digit.
DigitVal(c) == IF Ord(c) <= 57 THEN Ord(c) - 48 ELSE Ord(c) - 55

RECURSIVE DigitsVal(_)
DigitsVal(s) ==
    IF s = <<>> THEN 0
    ELSE 16 * DigitsVal(SubSeq(s, 1, Len(s) - 1)) + DigitVal(s[Len(s)])

\* int(s, 16): an optional "0x" prefix, then hexadecimal digits.
HexInt(s) ==
    IF Len(s) >= 2 /\ s[1] = "0" /\ s[2] = "x"
    THEN DigitsVal(SubSeq(s, 3, Len(s)))
    ELSE DigitsVal(s)

\* format(n, 'b'): binary digits, most significant first, no padding; "0" for 0.
RECURSIVE BinStr(_)
BinStr(n) ==
    IF n < 2 THEN <<(IF n = 0 THEN "0" ELSE "1")>>
    ELSE Append(BinStr(n \div 2), (IF n % 2 = 0 THEN "0" ELSE "1"))

\* a <= b on Python str: lexicographic by code point, a proper prefix is smaller.
RECURSIVE StrLE(_, _)
StrLE(a, b) ==
    IF a = <<>> THEN TRUE
    ELSE IF b = <<>> THEN FALSE
    ELSE IF Ord(a[1]) < Ord(b[1]) THEN TRUE
    ELSE IF Ord(a[1]) > Ord(b[1]) THEN FALSE
    ELSE StrLE(Tail(a), Tail(b))

RECURSIVE Pow2(_)
Pow2(n) == IF n = 0 THEN 1 ELSE 2 * Pow2(n - 1)

\* Bit q of the basis state x: qubit q carries the bit of significance 2^q.
Bit(x, q) == (x \div Pow2(q)) % 2

\* The basis states of a register of w qubits.
States(w) == 0..(Pow2(w) - 1)

\* The measured bitstring of basis state x over w qubits: qubit w-1 leftmost.
Bitstring(x, w) == [k \in 1..w |-> IF Bit(x, w - k) = 1 THEN "1" ELSE "0"]

----------------------------------------------------------------------------
(* The inputs: hexadecimal literals, with and without the 0x prefix.       *)

RECURSIVE HexDigits(_)
HexDigits(n) ==
    LET d == n % 16
        c == IF d < 10 THEN <<"0","1","2","3","4","5","6","7","8","9">>[d + 1]
             ELSE <<"A","B","C","D","E","F">>[d - 9]
    IN  IF n < 16 THEN <<c>> ELSE Append(HexDigits(n \div 16), c)

HexLiterals(max) ==
    {HexDigits(v) : v \in 0..max} \cup {<<"0", "x">> \o HexDigits(v) : v \in 0..max}

\* The bounds given to the commands are written as the defaults of lines 87-88
\* are, with the prefix.
KeyLiterals == {<<"0", "x">> \o HexDigits(v) : v \in 0..MaxKey}
SearchLiterals == HexLiterals(MaxVal)

----------------------------------------------------------------------------
(* Profile.run_grover_search, lines 34-63.                                 *)

\* Line 36: the register width, the length of upper_bound's binary expansion.
num_qubits(upper_bound) == Len(BinStr(HexInt(upper_bound)))

\* Lines 40-42: enumerate() walks lower_bound's binary expansion from its first
\* (most significant) character, and position i with character '0' puts an X
\* gate on qubit i.
XTargets(lower_bound) ==
    LET bits == BinStr(HexInt(lower_bound))
    IN  {i \in 0..(Len(bits) - 1) : bits[i + 1] = "0"}

\* Lines 37-46: the oracle circuit, as its width and the qubits carrying an X
\* gate; the H, MCX, H tail on qubit num_qubits-1 is the same in every circuit.
OracleCircuit(lower_bound, upper_bound) ==
    [num_qubits |-> num_qubits(upper_bound), x |-> XTargets(lower_bound)]

\* QuantumCircuit.x(i) raises CircuitError for a qubit index outside the register.
IndexOutOfRange(circ) == \E i \in circ.x : i >= circ.num_qubits

\* Lines 44-46: H.MCX.H on the last qubit, controlled on all the others, is a
\* phase flip of the all-ones state; the X gates of lines 40-42 come before it
\* and are not undone. The circuit flips the phase of basis state x exactly
\* when every qubit reads 1 after the X gates.
PhaseFlips(circ, x) ==
    \A q \in 0..(circ.num_qubits - 1) :
        (IF q \in circ.x THEN 1 - Bit(x, q) ELSE Bit(x, q)) = 1

\* Lines 55-56: the classical predicate, a comparison of Python strings: the
\* bounds are the hexadecimal strings the method was given, bitstring is the
\* measured string of '0' and '1'.
is_good_state(lower_bound, upper_bound, bitstring) ==
    StrLE(lower_bound, bitstring) /\ StrLE(bitstring, upper_bound)

\* Lines 61-62: Grover(sampler=sampler) is given no iteration count and
\* amplify(problem) no circuit, so the library picks the power of the Grover
\* operator itself: at least 1 and at most ceil(sqrt(2^num_qubits)).
MaxPower(w) == CHOOSE m \in 1..Pow2(w) : m * m >= Pow2(w) /\ (m - 1) * (m - 1) < Pow2(w)

AmplifyPowers(w) == 1..MaxPower(w)

\* What one call can do: the set of its outcomes. A register of one qubit
\* reaches mcx() with an empty control list (line 45), which raises in some
\* library versions and acts as a plain X in others: both are outcomes.
\* qc is the number of Grover operators composed into qc (lines 50-52), a
\* circuit no later line reads.
run_grover_search(lower_bound, upper_bound, iterations) ==
    LET circ == OracleCircuit(lower_bound, upper_bound)
        w == circ.num_qubits
        raised == [outcome |-> "CircuitError", oracle_circuit |-> None,
                   qc |-> 0, result |-> None]
    IN  IF IndexOutOfRange(circ) THEN {raised}
        ELSE (IF w = 1 THEN {raised} ELSE {})
             \cup
             {[outcome |-> "GroverResult", oracle_circuit |-> <<circ>>,
               qc |-> iterations,
               result |-> <<[power |-> k,
                             top_measurement |-> Bitstring(m, w),
                             oracle_evaluation |->
                                 is_good_state(lower_bound, upper_bound, Bitstring(m, w))]>>]
                : k \in AmplifyPowers(w), m \in States(w)}

----------------------------------------------------------------------------
(* Profile.__init__, Profile.assign_keyspace, load_profiles.               *)

\* Lines 66-77, 12-17: every record of the file becomes a fresh Profile, whose
\* current_keyspace is None.
load_profiles == [i \in ProfileIds |-> None]

\* Mutant: the new pair is merged into the one already assigned.
AssignKeyspace_merge(objs, p, lower_bound, upper_bound) ==
    [objs EXCEPT ![p] = IF @ = None THEN <<lower_bound, upper_bound>>
                        ELSE <<@[1], upper_bound>>]

\* Mutant: current_keyspace is one attribute shared by every Profile.
AssignKeyspace_shared(objs, p, lower_bound, upper_bound) ==
    [q \in DOMAIN objs |-> <<lower_bound, upper_bound>>]

\* Lines 19-20 on the object at position p of the list objs.
AssignKeyspace(objs, p, lower_bound, upper_bound) ==
    [objs EXCEPT ![p] = <<lower_bound, upper_bound>>]

Call(op, p, lo, hi, it, before, loaded, r) ==
    [op |-> op, profile_id |-> p, lower_bound |-> lo, upper_bound |-> hi,
     iterations |-> it, before |-> before, loaded |-> loaded,
     outcome |-> r.outcome, oracle_circuit |-> r.oracle_circuit,
     qc |-> r.qc, result |-> r.result]

Plain(outcome) ==
    [outcome |-> outcome, oracle_circuit |-> None, qc |-> 0, result |-> None]

----------------------------------------------------------------------------
(* The operations.                                                         *)

Init ==
    /\ profiles = load_profiles
    /\ last_assign = [i \in ProfileIds |-> None]
    /\ call = Call("load_profiles", 0, None, None, 0, None, None, Plain("returned"))

\* profiles[p].assign_keyspace(lower_bound, upper_bound), lines 19-20.
Profile_assign_keyspace(p, lower_bound, upper_bound) ==
    /\ profiles' = AssignKeyspace(profiles, p, lower_bound, upper_bound)
    /\ call' = Call("Profile.assign_keyspace", p, lower_bound, upper_bound, 0,
                    profiles[p], None, Plain("returned"))
    /\ last_assign' = [last_assign EXCEPT ![p] = <<lower_bound, upper_bound>>]

\* profiles[p].run_grover_search(lower_bound, upper_bound, iterations), lines 34-63.
Profile_run_grover_search(p, lower_bound, upper_bound, iterations) ==
    /\ \E r \in run_grover_search(lower_bound, upper_bound, iterations) :
          call' = Call("Profile.run_grover_search", p, lower_bound, upper_bound,
                       iterations, profiles[p], None, r)
    /\ UNCHANGED <<profiles, last_assign>>

\* The command assign_keyspace, lines 85-92: it loads its own list of profiles,
\* assigns to one of them and prints; the list is local to the command.
assign_keyspace(profile_id, lower_hex, upper_hex) ==
    LET loaded == load_profiles
        after == AssignKeyspace(loaded, profile_id, lower_hex, upper_hex)
    IN  /\ call' = Call("assign_keyspace", profile_id, lower_hex, upper_hex, 0,
                        loaded[profile_id], <<after>>, Plain("Assigned"))
        /\ UNCHANGED <<profiles, last_assign>>

\* Mutant: the test of line 103 is missing, and unpacking None raises.
RunGroverBody_unguarded(ks, iterations) ==
    IF ks # None
    THEN {[r EXCEPT !.outcome = IF @ = "GroverResult" THEN "Results" ELSE @]
            : r \in run_grover_search(ks[1], ks[2], iterations)}
    ELSE {Plain("TypeError")}

\* Lines 103-108 for a profile whose current_keyspace is ks: the outcomes.
RunGroverBody(ks, iterations) ==
    IF ks # None
    THEN {[r EXCEPT !.outcome = IF @ = "GroverResult" THEN "Results" ELSE @]
            : r \in run_grover_search(ks[1], ks[2], iterations)}
    ELSE {Plain("NoKeyspace")}

\* The command run_grover, lines 95-108: it loads its own list of profiles and
\* searches the keyspace of one of them, or prints that it has none.
run_grover(profile_id, iterations) ==
    LET loaded == load_profiles
        ks == loaded[profile_id]
    IN  /\ \E r \in RunGroverBody(ks, iterations) :
              call' = Call("run_grover", profile_id,
                           (IF ks # None THEN ks[1] ELSE None),
                           (IF ks # None THEN ks[2] ELSE None),
                           iterations, ks, <<loaded>>, r)
        /\ UNCHANGED <<profiles, last_assign>>

\* A caller holding the list runs the search the way lines 104-105 do: on the
\* keyspace assigned to the profile.
Next ==
    \/ \E p \in ProfileIds, lo \in KeyLiterals, hi \in KeyLiterals :
          Profile_assign_keyspace(p, lo, hi)
    \/ \E p \in ProfileIds, it \in 0..MaxIter :
          /\ profiles[p] # None
          /\ Profile_run_grover_search(p, profiles[p][1], profiles[p][2], it)
    \/ \E p \in ProfileIds, lo \in KeyLiterals, hi \in KeyLiterals :
          assign_keyspace(p, lo, hi)
    \/ \E p \in ProfileIds, it \in 0..MaxIter :
          run_grover(p, it)

Spec == Init /\ [][Next]_vars

\* The search alone, as a function of its arguments: a call is made with
\* arguments drawn from a wider range of bounds, and returns or raises.
InitSearch ==
    /\ profiles = load_profiles
    /\ last_assign = [i \in ProfileIds |-> None]
    /\ \E p \in ProfileIds, lo \in SearchLiterals, hi \in SearchLiterals, it \in 0..MaxIter :
          call = Call("Profile.run_grover_search", p, lo, hi, it, None, None, Plain("called"))

NextSearch ==
    /\ call.outcome = "called"
    /\ Profile_run_grover_search(call.profile_id, call.lower_bound, call.upper_bound,
                                 call.iterations)

SpecSearch == InitSearch /\ [][NextSearch]_vars
----------------------------------------------------------------------------
(* Properties.                                                             *)

IsSearch == call.op = "Profile.run_grover_search"
Circ == call.oracle_circuit[1]
\* A search that built its oracle on a register of two or more qubits, where
\* mcx() has controls and the circuit is the same under every library version.
Built == IsSearch /\ call.oracle_circuit # None /\ Circ.num_qubits >= 2
Lower == HexInt(call.lower_bound)
Upper == HexInt(call.upper_bound)

\* The least number of bits that hold n, 1 for 0.
MinBits(n) == CHOOSE w \in 1..(n + 1) : n < Pow2(w) /\ (w = 1 \/ n >= Pow2(w - 1))

\* C1: for bounds with 0 <= lower <= upper and W the width derived from
\* upper, the oracle circuit the search builds marks a W-bit state x if and
\* only if lower <= x <= upper, for every x in 0..2^W-1.
C1_ExactRangeMarking ==
    (Built /\ Lower <= Upper) =>
        \A x \in States(Circ.num_qubits) :
            PhaseFlips(Circ, x) <=> (Lower <= x /\ x <= Upper)

\* C2: an assign call with lower > upper fails with RangeError and leaves the
\* worker's current_keyspace as it was before the call.
C2_RangeErrorNoMutation ==
    /\ (call.op = "Profile.assign_keyspace" /\ Lower > Upper) =>
          (call.outcome = "RangeError" /\ profiles[call.profile_id] = call.before)
    /\ (call.op = "assign_keyspace" /\ Lower > Upper) =>
          (call.outcome = "RangeError" /\ call.loaded[1][call.profile_id] = call.before)

\* C3: a search requested for a worker whose current_keyspace is unset is
\* reported as having no keyspace assigned; no oracle is built and no result
\* is returned.
C3_UnsetKeyspace ==
    (call.op = "run_grover" /\ call.before = None) =>
        /\ call.outcome = "NoKeyspace"
        /\ call.oracle_circuit = None
        /\ call.result = None

C3_Witness ==
    /\ call.op = "run_grover"
    /\ call.before = None
    /\ call.outcome = "NoKeyspace"

\* C4: once the command that assigns a keyspace to worker N has completed
\* with (lower, upper), lower <= upper, the command that runs a search for
\* worker N reads that keyspace and searches it. Stated for the search command
\* that comes right after the assignment.
C4_AssignThenSearch ==
    [][(/\ call.op = "assign_keyspace"
        /\ call.outcome = "Assigned"
        /\ Lower <= Upper
        /\ call'.op = "run_grover"
        /\ call'.profile_id = call.profile_id)
       => (/\ call'.before = <<call.lower_bound, call.upper_bound>>
           /\ call'.lower_bound = call.lower_bound
           /\ call'.upper_bound = call.upper_bound
           /\ call'.outcome # "NoKeyspace")]_vars

\* C5: after any sequence of assign calls on a worker, its current_keyspace
\* is exactly the pair of the most recent call, whatever was assigned before;
\* every assign call returns without error, a repeated one included.
C5_Overwrite ==
    /\ \A p \in ProfileIds : profiles[p] = last_assign[p]
    /\ call.op = "Profile.assign_keyspace" =>
          /\ call.outcome = "returned"
          /\ profiles[call.profile_id] = <<call.lower_bound, call.upper_bound>>
    /\ call.op = "assign_keyspace" =>
          /\ call.outcome = "Assigned"
          /\ call.loaded[1][call.profile_id] = <<call.lower_bound, call.upper_bound>>

C5_Witness ==
    /\ call.op = "Profile.assign_keyspace"
    /\ call.before # None
    /\ call.before # <<call.lower_bound, call.upper_bound>>
    /\ call.before[1] # call.lower_bound
    /\ call.before[2] # call.upper_bound
    /\ profiles[call.profile_id] = <<call.lower_bound, call.upper_bound>>

\* C6: the result a search returns comes from exactly `iterations` rounds of
\* amplification; with iterations = 0 no round is applied.
C6_IterationsApplied ==
    (Built /\ call.outcome = "GroverResult") =>
        call.result[1].power = call.iterations

\* C7: when the oracle marks no state of the W-bit state space, the search
\* fails and returns no result. No state is marked when the range is empty
\* (lower > upper) and the predicate handed to the search accepts no
\* bitstring; any error counts as the failure, whatever its name.
C7_EmptyOracle ==
    (/\ IsSearch
     /\ call.outcome # "called"
     /\ num_qubits(call.upper_bound) >= 2
     /\ Lower > Upper
     /\ \A x \in States(num_qubits(call.upper_bound)) :
           ~is_good_state(call.lower_bound, call.upper_bound,
                          Bitstring(x, num_qubits(call.upper_bound))))
    => (call.outcome # "GroverResult" /\ call.result = None)

\* C8: the width W is the least number of bits that hold upper (1 for 0), and
\* every position the oracle construction walks in lower lies in 0..W-1 and
\* addresses the qubit of the same significance as the bit it reads: an X gate
\* sits on the qubit exactly when that bit of lower, taken as a W-bit value,
\* is 0. The qubits may be numbered from the least or from the most
\* significant bit, as long as it is one numbering for all of them.
C8_BitWidth ==
    (Built /\ Lower <= Upper) =>
        LET w == Circ.num_qubits
            walked == 0..(Len(BinStr(Lower)) - 1)
        IN  /\ w = MinBits(Upper)
            /\ \A i \in walked : i \in 0..(w - 1)
            /\ \/ \A i \in walked : (i \in Circ.x) <=> (Bit(Lower, i) = 0)
               \/ \A i \in walked : (i \in Circ.x) <=> (Bit(Lower, w - 1 - i) = 0)

\* C9: a worker's current_keyspace changes only in an assign on that worker:
\* a search changes none, an assign changes no other worker's, and the
\* commands' own lists hold no keyspace but the one just assigned.
C9_Frame ==
    [][/\ \A q \in ProfileIds :
             profiles'[q] # profiles[q] =>
                 (call'.op = "Profile.assign_keyspace" /\ call'.profile_id = q)
       /\ call'.op = "assign_keyspace" =>
             \A q \in ProfileIds \ {call'.profile_id} : call'.loaded[1][q] = None
       /\ call'.op = "run_grover" =>
             \A q \in ProfileIds : call'.loaded[1][q] = None]_vars

C9_Witness ==
    /\ Built
    /\ call.outcome = "GroverResult"
    /\ \A q \in ProfileIds : profiles[q] # None
    /\ \E q \in ProfileIds : profiles[q] # profiles[call.profile_id]

\* C10: within one search the two descriptions of the marked set agree: the
\* oracle circuit marks x exactly when is_good_state accepts the bitstring of
\* x, and both are lower <= x <= upper.
C10_OracleAgreesWithPredicate ==
    Built =>
        \A x \in States(Circ.num_qubits) :
            /\ PhaseFlips(Circ, x) <=>
                   is_good_state(call.lower_bound, call.upper_bound,
                                 Bitstring(x, Circ.num_qubits))
            /\ is_good_state(call.lower_bound, call.upper_bound,
                             Bitstring(x, Circ.num_qubits))
                   <=> (Lower <= x /\ x <= Upper)

====
